---- MODULE Spec2Model ----
(***************************************************************************)
(* Model of the ZKsig JavaScript SDK (zksig/sdk-js):                       *)
(*   - the functional API             src/src/contract.ts                  *)
(*   - the contract class             src/src/ZKsigDigitalSignatureContract.ts *)
(*   - the earlier contract class and encrypt.ts   src/unnamed/part_000    *)
(*   - pinning, encryption, download  src/src/files.ts                     *)
(* The ledger (the on-chain DigitalSignature contract) and ZKsigAgreement  *)
(* are not part of the sources; they are modelled from the specification.  *)
(***************************************************************************)
EXTENDS Integers, Sequences, FiniteSets, TLC

VARIABLES
    impl,            \* which SDK surface the application uses
    contractSigner,  \* this._contract.signer of the class instance
    supplied,        \* history: the signer last supplied by constructor / setSigner
    agreements,      \* ledger: the stored agreements, in submission order
    packets,         \* ledger: the accepted signature packets
    created,         \* history, parallel to agreements: how each was created
    signLog,         \* history: every sign record handed to the ledger, with its verdict
    op               \* the operation in progress or last finished

vars == <<impl, contractSigner, supplied, agreements, packets, created,
          signLog, op>>

(***************************************************************************)
(* Bounds and input sets                                                   *)
(***************************************************************************)
MaxSigns == 2           \* sign records handed to the ledger, when slots are studied
MaxLifecycleSigns == 1  \* the same, when the life of an agreement is studied
MaxPage == 2
MaxListed == 2          \* agreements created, when the list operations are studied
MaxCidAgreements == 3   \* agreements created, when content identifiers are studied

Impls == {"functional", "class", "legacy"}
Signers == {"alice", "bob"}
NoSigner == "no signer"
Address(s) == IF s = "alice" THEN "0xA11CE" ELSE "0xB0B"
AddressZero == "0x0000000000000000000000000000000000000000"

AgreementIdentifiers == {"a"}
\* The model follows one agreement per agreement identifier.
MaxAgreements == Cardinality(AgreementIdentifiers)
SlotIdentifiers == {"a", "b"}
Documents == {<<>>, <<37>>}

\* ZKsigAgreement.getDescription() / CreateAgreementOptions.description:
\* loosely shaped entries; signer and allowedToUse may be left out.
DescriptionSamples ==
    { <<>>,
      << [identifier |-> "a"] >>,
      << [identifier |-> "b"], [identifier |-> "a"] >>,
      << [identifier |-> "a"], [identifier |-> "a"] >>,
      << [identifier |-> "a", allowedToUse |-> 1] >>,
      << [identifier |-> "a", allowedToUse |-> 0, signer |-> Address("bob")] >>,
      << [identifier |-> "b", allowedToUse |-> 2],
         [identifier |-> "a", allowedToUse |-> 1, signer |-> Address("alice")] >>,
      << [identifier |-> "a", allowedToUse |-> 1],
         [identifier |-> "a", allowedToUse |-> 0] >> }

\* What the create flow is given when content identifiers are studied: the
\* same document under other identifiers and descriptions, and another one.
CidCreations ==
    { [identifier |-> "a", pdf |-> <<37>>, description |-> <<[identifier |-> "a"]>>],
      [identifier |-> "c", pdf |-> <<37>>,
       description |-> <<[identifier |-> "b"], [identifier |-> "a"]>>],
      [identifier |-> "a", pdf |-> <<37>>,
       description |-> <<[identifier |-> "a", allowedToUse |-> 1]>>],
      [identifier |-> "c", pdf |-> <<37>>,
       description |-> <<[identifier |-> "b", allowedToUse |-> 2]>>],
      [identifier |-> "c", pdf |-> <<>>,
       description |-> <<[identifier |-> "a", allowedToUse |-> 1]>>],
      [identifier |-> "c", pdf |-> <<>>, description |-> <<[identifier |-> "a"]>>] }

LifecycleDescriptions ==
    { << [identifier |-> "a"] >>,
      << [identifier |-> "a", allowedToUse |-> 0] >> }

(***************************************************************************)
(* Byte strings.  A byte string is a contiguous slice [lo..hi] of a named  *)
(* source string; documents are explicit sequences of byte values.         *)
(***************************************************************************)
KeyLength == 32
NonceLength == 24

\* signer.signMessage / signer._signTypedData: a 65-byte signature, returned
\* as the string "0x" followed by 130 hexadecimal digits.  Signing is
\* deterministic: the same signer and message give the same signature.
Signature(signer, message) == [by |-> signer, over |-> message]

\* Buffer.from(<hex string>): the UTF-8 bytes of the string, one per character.
BufferFrom(hexString) == [src |-> [utf8 |-> hexString], lo |-> 1, hi |-> 2 + 2 * 65]

\* Uint8Array.prototype.slice(start, end)
slice(b, start, end) ==
    [src |-> b.src, lo |-> b.lo + start,
     hi |-> IF b.lo + end - 1 < b.hi THEN b.lo + end - 1 ELSE b.hi]

ByteLength(b) == IF b.hi < b.lo THEN 0 ELSE b.hi - b.lo + 1

zeroNonce == [zeros |-> NonceLength]

(***************************************************************************)
(* Content identifiers                                                     *)
(***************************************************************************)
\* sha256.digest: modelled as an ideal (collision-free) hash of its input.
sha256(bytes) == [sha2_256 |-> bytes]

\* new UnixFS({ type: "file", data: pdf }).marshal()
UnixFSMarshal(pdf) == [unixfs |-> "file", data |-> pdf]

\* codec.encode({ Data, Links: [] }) of @ipld/dag-pb
dagPbEncode(data) == [Data |-> data, Links |-> <<>>]

\* CID.create(version, code, digest)
CIDcreate(version, code, digest) == [version |-> version, code |-> code, digest |-> digest]

\* toV1 that leaves the version as it was
toV1Kept(cid) == cid

\* cid.toV1()
toV1(cid) == [cid EXCEPT !.version = 1]

\* cid.toString(): version 0 prints in base58btc, version 1 in base32
cidToString(cid) ==
    [base |-> IF cid.version = 0 THEN "base58btc" ELSE "base32", cid |-> cid]

\* The content identifier of a document, as createAgreement computes it.
Identify(pdf) == CIDcreate(0, "dag-pb", sha256(dagPbEncode(UnixFSMarshal(pdf))))

\* ZKsigAgreement.getCID() (not in the sources): the content identifier of
\* the agreement's PDF bytes.
getCID(pdf) == Identify(pdf)

\* packToBlob({ input: file, wrapWithDirectory: false }).root
packToBlobRoot(file) == CIDcreate(1, "car-root", sha256(file))

\* What pinFile returns when the upload succeeds.
pinFile(file) == cidToString(toV1(packToBlobRoot(file)))

\* JSON.stringify(description) wrapped by Buffer.from
descriptionFile(description) == [json |-> description]

\* The bytes a content identifier names (content addressing).
Addressed(cidString) == cidString.cid.digest.sha2_256

(***************************************************************************)
(* nacl.secretbox: an XSalsa20 stream body and a Poly1305 tag over it.     *)
(* The tag is modelled as an ideal MAC of (key, nonce, body).              *)
(***************************************************************************)
Null == [null |-> TRUE]

Mac(key, nonce, body) == [macKey |-> key, macNonce |-> nonce, over |-> body]

secretbox(msg, nonce, key) ==
    LET body == [streamKey |-> key, streamNonce |-> nonce, plain |-> msg]
    IN  [body |-> body, tag |-> Mac(key, nonce, body)]

\* nacl.secretbox.open: the plaintext, or null when the tag does not verify.
\* A box shorter than the tag gives null too.
secretboxOpen(box, nonce, key) ==
    IF "tag" \in DOMAIN box /\ box.tag = Mac(key, nonce, box.body)
    THEN [bytes |-> box.body.plain] ELSE Null

\* tweetnacl's checkLengths: a key that is not 32 bytes long throws.
BadKeySize(key) == ByteLength(key) # KeyLength

(***************************************************************************)
(* Key-derivation messages                                                 *)
(***************************************************************************)
\* signer.signMessage(`Encrypt PDF for ${identifier}`)
StringMessage(identifier) ==
    [scheme |-> "signMessage", text |-> <<"Encrypt PDF for ", identifier>>]

domain == {<<"name", "ZKsig Digital Signatures">>, <<"version", "1">>}

encryptionTypes ==
    [primary |-> "Agreement",
     fields |-> << <<"Owner Address", "address">>,
                   <<"Agreement Identifier", "string">>,
                   <<"CID", "string">> >>]

\* getAgreementEncryptionMessage(signer, agreement): the typed data signed
EncryptionMessage(agreement) ==
    [scheme |-> "signTypedData", domain |-> domain, types |-> encryptionTypes,
     value |-> [OwnerAddress |-> agreement.owner,
                AgreementIdentifier |-> agreement.identifier,
                CID |-> agreement.cid]]

\* The typed data the earlier class's sign asks the signer to sign.
AgreementSignerMessage(agreement, identifier) ==
    [scheme |-> "signTypedData", domain |-> {},
     types |-> [primary |-> "AgreementSigner",
                fields |-> << <<"Owner Address", "address">>,
                              <<"Agreement Identifier", "string">>,
                              <<"Agreement Index", "uint256">>,
                              <<"Signer Identifier", "string">> >>],
     value |-> [OwnerAddress |-> agreement.owner,
                AgreementIdentifier |-> agreement.identifier,
                AgreementIndex |-> agreement.index,
                SignerIdentifier |-> identifier]]

\* CreateMessage with the cid printed as created, without toV1()
CreateMessageLegacyCid(api, address, identifier, pdf) ==
    IF api = "class"
    THEN EncryptionMessage([owner |-> address, identifier |-> identifier,
                            cid |-> cidToString(getCID(pdf))])
    ELSE StringMessage(identifier)

\* The message createAgreement asks the signer to sign, per implementation.
CreateMessage(api, address, identifier, pdf) ==
    IF api = "class"
    THEN EncryptionMessage([owner |-> address, identifier |-> identifier,
                            cid |-> cidToString(toV1(getCID(pdf)))])
    ELSE StringMessage(identifier)

\* The message sign asks the signer to sign, per implementation.
SignMessage(api, agreement, identifier) ==
    CASE api = "class"      -> EncryptionMessage(agreement)
      [] api = "legacy"     -> AgreementSignerMessage(agreement, identifier)
      [] api = "functional" -> StringMessage(identifier)

\* pw: the bytes handed on as encryptionPWBytes
EncryptionPW(signer, message) == BufferFrom(Signature(signer, message))

\* encryptionPWBytes.slice(0, 32)
EncryptionKey(pw) == slice(pw, 0, KeyLength)

(***************************************************************************)
(* Constraints built by createAgreement                                    *)
(***************************************************************************)
Has(entry, field) == field \in DOMAIN entry

\* signer || constants.AddressZero
SignerOrZero(entry) ==
    IF Has(entry, "signer") /\ entry.signer # "" THEN entry.signer ELSE AddressZero

\* The class: .map(({ identifier, allowedToUse, signer }) => ({ ... })).
\* A property left out of the entry is left undefined in the constraint.
classConstraint(entry) ==
    IF Has(entry, "allowedToUse")
    THEN [identifier |-> entry.identifier, allowedToUse |-> entry.allowedToUse,
          signer |-> SignerOrZero(entry), totalUsed |-> 0]
    ELSE [identifier |-> entry.identifier,
          signer |-> SignerOrZero(entry), totalUsed |-> 0]

\* The functional API: .map(({ identifier }) => ({ ... }))
functionalConstraint(entry) ==
    [identifier |-> entry.identifier, signer |-> AddressZero,
     totalUsed |-> 0, allowedToUse |-> 1]

Constraints(api, description) ==
    [i \in 1..Len(description) |->
        IF api = "functional" THEN functionalConstraint(description[i])
                              ELSE classConstraint(description[i])]

\* agreementRecord with the outer identifier where the entry's was meant
agreementRecordShadowed(api, identifier, pdf, description, encryptedCid, descriptionCid) ==
    [identifier |-> identifier,
     cid |-> cidToString(toV1(IF api = "class" THEN getCID(pdf) ELSE Identify(pdf))),
     encryptedCid |-> encryptedCid,
     descriptionCid |-> descriptionCid,
     constraints |-> [i \in 1..Len(description) |->
                         [Constraints(api, description)[i] EXCEPT !.identifier = identifier]],
     agreementCallback |-> AddressZero,
     signatureCallback |-> AddressZero]

\* The record createAgreement hands to contract.createAgreement
agreementRecord(api, identifier, pdf, description, encryptedCid, descriptionCid) ==
    [identifier |-> identifier,
     cid |-> cidToString(toV1(IF api = "class" THEN getCID(pdf) ELSE Identify(pdf))),
     encryptedCid |-> encryptedCid,
     descriptionCid |-> descriptionCid,
     constraints |-> Constraints(api, description),
     agreementCallback |-> AddressZero,
     signatureCallback |-> AddressZero]

\* signRecord with the agreement's identifier in place of the slot's
signRecordAgreementIdentifier(agreement, identifier, encryptedCid) ==
    [identifier |-> agreement.identifier,
     encryptedCid |-> encryptedCid,
     agreementOwner |-> agreement.owner,
     agreementIndex |-> agreement.index]

\* The record sign hands to contract.sign
signRecord(agreement, identifier, encryptedCid) ==
    [identifier |-> identifier,
     encryptedCid |-> encryptedCid,
     agreementOwner |-> agreement.owner,
     agreementIndex |-> agreement.index]

\* encryptAgreementAndPin: the file that is pinned
encryptedFile(pdf, pw) == secretbox(pdf, zeroNonce, EncryptionKey(pw))

(***************************************************************************)
(* The ledger collaborator (DigitalSignature contract), from the           *)
(* specification: it stores agreements per owner and authorizes packets.   *)
(***************************************************************************)
\* ethers' ABI coder rejects a uint256 that is undefined.
Encodable(record) ==
    \A i \in 1..Len(record.constraints) : Has(record.constraints[i], "allowedToUse")

OwnedBy(address) == {i \in 1..Len(agreements) : agreements[i].owner = address}

storedAgreement(sender, record) ==
    [owner |-> Address(sender),
     index |-> Cardinality(OwnedBy(Address(sender))),
     identifier |-> record.identifier,
     cid |-> record.cid,
     encryptedCid |-> record.encryptedCid,
     descriptionCid |-> record.descriptionCid,
     constraints |-> record.constraints]

Min(S) == CHOOSE x \in S : \A y \in S : x <= y

\* authorize(constraints, slotIdentifier, signer)
authorize(constraints, slotIdentifier, signer) ==
    LET matches == {i \in 1..Len(constraints) : constraints[i].identifier = slotIdentifier}
    IN  IF matches = {} THEN [verdict |-> "NoSuchSlot", slot |-> 0]
        ELSE LET i == Min(matches)
                 c == constraints[i]
             IN  IF c.signer # AddressZero /\ c.signer # signer
                 THEN [verdict |-> "WrongSigner", slot |-> i]
                 ELSE IF c.allowedToUse # 0 /\ c.totalUsed >= c.allowedToUse
                 THEN [verdict |-> "ExhaustedSlot", slot |-> i]
                 ELSE [verdict |-> "Authorized", slot |-> i]

\* The agreement a sign record names, as an index into the ledger's list (0: none)
Located(record) ==
    LET found == {i \in 1..Len(agreements) :
                     /\ agreements[i].owner = record.agreementOwner
                     /\ agreements[i].index = record.agreementIndex}
    IN  IF found = {} THEN 0 ELSE Min(found)

(***************************************************************************)
(* Operations                                                              *)
(***************************************************************************)
ReadyError == "Use setSigner to set an ethers Signer before using contract"

NoOp == [kind |-> "none", pc |-> "done"]

Idle == op.pc \in {"done", "failed"}

\* The functional API takes the signer as an argument; the class uses the
\* signer of its contract.
UsesSigner(s) ==
    IF impl = "functional" THEN s \in Signers ELSE s = contractSigner

\* _readyCheck: passes when this._contract.signer is set
readyCheck(s) == s # NoSigner

\* An operation that threw before making any call
Thrown(kind, error) ==
    [kind |-> kind, api |-> impl, pc |-> "failed", signer |-> NoSigner,
     sig |-> "none", encPin |-> "none", descPin |-> "none",
     submitted |-> FALSE, call |-> <<>>, error |-> error]

Init ==
    /\ impl \in Impls
    /\ contractSigner \in (IF impl = "functional" THEN {NoSigner}
                                                  ELSE Signers \cup {NoSigner})
    /\ supplied = contractSigner
    /\ agreements = <<>>
    /\ packets = <<>>
    /\ created = <<>>
    /\ signLog = <<>>
    /\ op = NoOp

\* new ZKsigDigitalSignatureContract({ chainId, signer })
Constructor(s) ==
    /\ impl # "functional"
    /\ Idle
    /\ contractSigner' = s
    /\ supplied' = s
    /\ op' = [kind |-> "constructor", pc |-> "done"]
    /\ UNCHANGED <<impl, agreements, packets, created, signLog>>

\* setSigner(signer): this._contract.connect(signer) returns a new Contract
\* and leaves this._contract as it was; the result is dropped.
SetSigner(s) ==
    /\ impl # "functional"
    /\ Idle
    /\ supplied' = s
    /\ contractSigner' = contractSigner
    /\ op' = [kind |-> "setSigner", pc |-> "done"]
    /\ UNCHANGED <<impl, agreements, packets, created, signLog>>

\* A ledger read: ready check, then the contract call.
Query(kind, s, call) ==
    /\ Idle
    /\ UsesSigner(s)
    /\ op' = IF ~readyCheck(s) THEN Thrown(kind, ReadyError)
             ELSE [kind |-> kind, api |-> impl, pc |-> "done", signer |-> s,
                   sig |-> "none", encPin |-> "none", descPin |-> "none",
                   submitted |-> FALSE, call |-> call, error |-> "none"]
    /\ UNCHANGED <<impl, contractSigner, supplied, agreements, packets,
                   created, signLog>>

GetProfile(s) == Query("getProfile", s, <<"getProfile">>)

\* address || (await this._contract.signer.getAddress())
AddressOr(address, s) == IF address # <<>> THEN address[1] ELSE Address(s)

\* perPage = 10 in the parameters of the functional getAgreements / getSignatures
DefaultPerPage == 10

\* The list operations as typed: the functional API requires the address
\* and defaults perPage, the class requires perPage and defaults the address.
ListTyped(address, perPage) ==
    IF impl = "functional" THEN address # <<>> ELSE perPage # <<>>

PerPageOr(perPage) == IF perPage # <<>> THEN perPage[1] ELSE DefaultPerPage

\* Offset counting pages from zero
OffsetFromZero(page, perPage) == page * perPage

\* (page - 1) * perPage
Offset(page, perPage) == (page - 1) * perPage

\* The ledger's lists (from the specification): the agreements an address
\* owns and the packets an address signed, in the order they were accepted.
ledgerList(list, address) ==
    IF list = "getAgreements"
    THEN SelectSeq(agreements, LAMBDA a : a.owner = address)
    ELSE SelectSeq(packets, LAMBDA p : p.signer = address)

\* listAgreements / listSignatures (address, offset, limit)
ledgerPage(call) ==
    LET all == ledgerList(call[1], call[2])
        last == IF call[3] + call[4] < Len(all) THEN call[3] + call[4] ELSE Len(all)
    IN  SubSeq(all, call[3] + 1, last)

\* A list operation: ready check (class), then the contract call with the
\* page turned into offset and limit.  address and perPage are <<>> when
\* the caller leaves them out.
List(kind, s, address, page, perPage) ==
    /\ Idle
    /\ UsesSigner(s)
    /\ ListTyped(address, perPage)
    /\ op' = IF impl # "functional" /\ ~readyCheck(s) THEN Thrown(kind, ReadyError)
             ELSE LET call == <<kind, AddressOr(address, s),
                                Offset(page, PerPageOr(perPage)), PerPageOr(perPage)>>
                  IN  [kind |-> kind, api |-> impl, pc |-> "done", signer |-> s,
                       args |-> [address |-> address, page |-> page, perPage |-> perPage],
                       sig |-> "none", encPin |-> "none", descPin |-> "none",
                       submitted |-> FALSE, call |-> call,
                       result |-> ledgerPage(call), error |-> "none"]
    /\ UNCHANGED <<impl, contractSigner, supplied, agreements, packets,
                   created, signLog>>

GetAgreements(s, address, page, perPage) ==
    List("getAgreements", s, address, page, perPage)

GetSignatures(s, address, page, perPage) ==
    List("getSignatures", s, address, page, perPage)

\* getAgreement / getSignature: ready check (class), then the list operation
\* with page: index + 1 and perPage: 1; the first element of what it returns
\* (undefined when it returns none).
Get(kind, list, s, address, index) ==
    /\ Idle
    /\ UsesSigner(s)
    /\ impl = "functional" => address # <<>>
    /\ op' = IF impl # "functional" /\ ~readyCheck(s) THEN Thrown(kind, ReadyError)
             ELSE LET call == <<list, AddressOr(address, s), Offset(index + 1, 1), 1>>
                      page == ledgerPage(call)
                  IN  [kind |-> kind, api |-> impl, pc |-> "done", signer |-> s,
                       args |-> [address |-> address, index |-> index],
                       sig |-> "none", encPin |-> "none", descPin |-> "none",
                       submitted |-> FALSE, call |-> call,
                       result |-> IF Len(page) = 0 THEN [undefined |-> TRUE]
                                  ELSE [returned |-> page[1]],
                       error |-> "none"]
    /\ UNCHANGED <<impl, contractSigner, supplied, agreements, packets,
                   created, signLog>>

GetAgreement(s, address, index) == Get("getAgreement", "getAgreements", s, address, index)

GetSignature(s, address, index) == Get("getSignature", "getSignatures", s, address, index)

\* CreateAgreementOptions.description of the functional API is typed
\* { identifier, fields }[]: its entries carry no signer and no allowedToUse.
WellTyped(description) ==
    impl = "functional" =>
        \A i \in 1..Len(description) : DOMAIN description[i] = {"identifier"}

\* createAgreement up to its first await that another party answers: the
\* class awaits agreement.getCID() (with getAddress and toBytes) before it
\* asks for the signature, the functional API and the earlier class ask for
\* the signature first.
CreateAgreement(s, identifier, pdf, description, most) ==
    /\ Idle
    /\ UsesSigner(s)
    /\ WellTyped(description)
    /\ Len(agreements) < most
    /\ op' = IF ~readyCheck(s) THEN Thrown("createAgreement", ReadyError)
             ELSE [kind |-> "createAgreement", api |-> impl,
                   pc |-> IF impl = "class" THEN "identifying" ELSE "signing",
                   signer |-> s, identifier |-> identifier, pdf |-> pdf,
                   description |-> description, agreement |-> 0,
                   message |-> IF impl = "class" THEN <<>>
                               ELSE CreateMessage(impl, Address(s), identifier, pdf),
                   cid |-> <<>>,
                   sig |-> IF impl = "class" THEN "none" ELSE "pending",
                   encPin |-> "none", descPin |-> "none",
                   submitted |-> FALSE, record |-> <<>>, verdict |-> "none",
                   call |-> <<>>, error |-> "none"]
    /\ UNCHANGED <<impl, contractSigner, supplied, agreements, packets,
                   created, signLog>>

\* sign up to the signature request
Sign(s, ai, identifier, pdf, limit) ==
    /\ Idle
    /\ UsesSigner(s)
    /\ ai \in 1..Len(agreements)
    /\ Len(signLog) < limit
    /\ op' = IF ~readyCheck(s) THEN Thrown("sign", ReadyError)
             ELSE [kind |-> "sign", api |-> impl, pc |-> "signing",
                   signer |-> s, identifier |-> identifier, pdf |-> pdf,
                   description |-> <<>>, agreement |-> ai,
                   message |-> SignMessage(impl, agreements[ai], identifier),
                   sig |-> "pending", encPin |-> "none", descPin |-> "none",
                   submitted |-> FALSE, record |-> <<>>, verdict |-> "none",
                   call |-> <<>>, error |-> "none"]
    /\ UNCHANGED <<impl, contractSigner, supplied, agreements, packets,
                   created, signLog>>

InFlow == op.kind \in {"createAgreement", "sign"}

\* The pw the flow holds once the signer has answered
FlowPW(o) == EncryptionPW(o.signer, o.message)

\* IdentifiesLate for a flow that issues the pins without the identifier
IdentifiesLateNever(o) == FALSE

\* createAgreement of the functional API and of the earlier class computes
\* the content identifier after the signature and before the pins.
IdentifiesLate(o) == o.kind = "createAgreement" /\ o.api # "class"

\* The signer answers: the key is derived; unless the content identifier is
\* still to be computed, the document is encrypted and the pin requests are
\* issued (both of them, concurrently, in createAgreement).
SignatureResolved ==
    /\ InFlow
    /\ op.pc = "signing"
    /\ op' = IF IdentifiesLate(op)
             THEN [op EXCEPT !.pc = "identifying", !.sig = "ok"]
             ELSE [op EXCEPT !.pc = "pinning", !.sig = "ok", !.encPin = "pending",
                             !.descPin = IF op.kind = "createAgreement"
                                         THEN "pending" ELSE "none"]
    /\ UNCHANGED <<impl, contractSigner, supplied, agreements, packets,
                   created, signLog>>

\* The awaited content identifier is there: the class goes on to ask for the
\* signature, the functional API and the earlier class issue the two pins.
Identified ==
    /\ op.kind = "createAgreement"
    /\ op.pc = "identifying"
    /\ LET cid == IF op.api = "class" THEN getCID(op.pdf) ELSE Identify(op.pdf)
       IN  op' = IF IdentifiesLate(op)
                 THEN [op EXCEPT !.cid = <<cid>>, !.pc = "pinning",
                                 !.encPin = "pending", !.descPin = "pending"]
                 ELSE [op EXCEPT !.cid = <<cid>>, !.pc = "signing",
                                 !.sig = "pending",
                                 !.message = CreateMessage(op.api, Address(op.signer),
                                                           op.identifier, op.pdf)]
    /\ UNCHANGED <<impl, contractSigner, supplied, agreements, packets,
                   created, signLog>>

\* The signer refuses: the await throws.
SignatureRejected ==
    /\ InFlow
    /\ op.pc = "signing"
    /\ op' = [op EXCEPT !.pc = "failed", !.sig = "rejected",
                        !.error = "signature request rejected"]
    /\ UNCHANGED <<impl, contractSigner, supplied, agreements, packets,
                   created, signLog>>

\* pinFile: the upload answers ok
PinResolved(which) ==
    /\ InFlow
    /\ op[which] = "pending"
    /\ op' = [op EXCEPT ![which] = "ok"]
    /\ UNCHANGED <<impl, contractSigner, supplied, agreements, packets,
                   created, signLog>>

\* pinFile: the upload fails; the awaited Promise.all rejects at once, the
\* other pin stays in flight.
PinRejected(which) ==
    /\ InFlow
    /\ op[which] = "pending"
    /\ op' = [op EXCEPT ![which] = "rejected",
                        !.pc = "failed",
                        !.error = IF op.pc = "pinning"
                                  THEN "Unable to pin file to IPFS" ELSE @]
    /\ UNCHANGED <<impl, contractSigner, supplied, agreements, packets,
                   created, signLog>>

\* createJoined without the join on the description pin
createJoinedEarly(o) == o.encPin = "ok"

\* createAgreement: both awaited pins have resolved
createJoined(o) == o.pc = "pinning" /\ o.encPin = "ok" /\ o.descPin = "ok"

\* sign: the awaited pin has resolved
signJoined(o) == o.pc = "pinning" /\ o.encPin = "ok"

\* createAgreement after the join: the record goes to contract.createAgreement
SubmitAgreement ==
    /\ op.kind = "createAgreement"
    /\ createJoined(op)
    /\ LET record == agreementRecord(op.api, op.identifier, op.pdf, op.description,
                         pinFile(encryptedFile(op.pdf, FlowPW(op))),
                         pinFile(descriptionFile(op.description)))
       IN  IF Encodable(record)
           THEN /\ agreements' = Append(agreements, storedAgreement(op.signer, record))
                /\ created' = Append(created, [api |-> op.api, signer |-> op.signer,
                                               pdf |-> op.pdf, message |-> op.message])
                /\ op' = [op EXCEPT !.pc = "done", !.submitted = TRUE,
                                    !.record = record]
           ELSE /\ op' = [op EXCEPT !.pc = "failed", !.submitted = TRUE,
                                    !.record = record,
                                    !.error = "invalid BigNumber value"]
                /\ UNCHANGED <<agreements, created>>
    /\ UNCHANGED <<impl, contractSigner, supplied, packets, signLog>>

\* sign after the pin: the record goes to contract.sign, and the ledger
\* authorizes or denies it.
SubmitSignature ==
    /\ op.kind = "sign"
    /\ signJoined(op)
    /\ LET encryptedCid == pinFile(encryptedFile(op.pdf, FlowPW(op)))
           record == signRecord(agreements[op.agreement], op.identifier, encryptedCid)
           ai == Located(record)
           v == IF ai = 0 THEN [verdict |-> "NoSuchAgreement", slot |-> 0]
                ELSE authorize(agreements[ai].constraints, record.identifier,
                               Address(op.signer))
           ok == v.verdict = "Authorized"
       IN  /\ agreements' =
                IF ok THEN [agreements EXCEPT ![ai].constraints[v.slot].totalUsed = @ + 1]
                      ELSE agreements
           /\ packets' =
                IF ok THEN Append(packets,
                              [agreementOwner |-> record.agreementOwner,
                               agreementIndex |-> record.agreementIndex,
                               identifier |-> record.identifier,
                               encryptedCid |-> record.encryptedCid,
                               signer |-> Address(op.signer)])
                      ELSE packets
           /\ signLog' = Append(signLog,
                              [agreement |-> op.agreement, named |-> op.identifier,
                               record |-> record, signer |-> op.signer,
                               pdf |-> op.pdf, message |-> op.message,
                               verdict |-> v.verdict,
                               packet |-> IF ok THEN Len(packets) + 1 ELSE 0])
           /\ op' = [op EXCEPT !.pc = IF ok THEN "done" ELSE "failed",
                               !.submitted = TRUE, !.record = record,
                               !.verdict = v.verdict,
                               !.error = IF ok THEN "none" ELSE v.verdict]
    /\ UNCHANGED <<impl, contractSigner, supplied, created>>

(***************************************************************************)
(* Retrieval                                                               *)
(***************************************************************************)
FetchError == "Could not fetch agreement from IPFS"
DecryptError == "Agreement decryption failed"

\* downloadAndDecrypt without the check of what secretbox.open returned
downloadAndDecryptUnchecked(pw, response) ==
    IF response.status = "network error" THEN [threw |-> "fetch failed"]
    ELSE IF response.status # "ok" THEN [threw |-> FetchError]
    ELSE IF BadKeySize(EncryptionKey(pw)) THEN [threw |-> "bad key size"]
    ELSE [returned |-> secretboxOpen(response.body, zeroNonce, EncryptionKey(pw))]

\* downloadAndDecrypt({ cid, encryptionPWBytes }) given what the fetch answered
downloadAndDecrypt(pw, response) ==
    IF response.status = "network error" THEN [threw |-> "fetch failed"]
    ELSE IF response.status # "ok" THEN [threw |-> FetchError]
    ELSE IF BadKeySize(EncryptionKey(pw)) THEN [threw |-> "bad key size"]
    ELSE LET pdf == secretboxOpen(response.body, zeroNonce, EncryptionKey(pw))
         IN  IF pdf = Null THEN [threw |-> DecryptError]
                           ELSE [returned |-> pdf.bytes]

\* Modified copies of a stored box: a changed body, a changed tag, a cut.
Tampered(box) ==
    {[box EXCEPT !.body.plain = d] : d \in Documents \ {box.body.plain}}
        \cup {[box EXCEPT !.tag = [forged |-> TRUE]], [short |-> TRUE]}

\* What fetch(`https://w3s.link/ipfs/${cid}`) may answer
Responses(cid) ==
    {[status |-> "network error"], [status |-> "not found"],
     [status |-> "ok", body |-> Addressed(cid), modified |-> FALSE]}
        \cup {[status |-> "ok", body |-> b, modified |-> TRUE] : b \in Tampered(Addressed(cid))}

\* A pw the caller passes to getAgreementPDF instead of asking the signer
CallerPWs(agreement) ==
    {[src |-> [caller |-> "pw"], lo |-> 1, hi |-> 16],
     EncryptionPW("alice", EncryptionMessage(agreement))}

\* The common part of getAgreementPDF and getSignaturePDF: pw is <<>> when
\* the signer is asked (getAgreementEncryptionMessage, with its ready check).
Download(kind, s, ai, pi, cid, pw, signed, response) ==
    /\ impl = "class"
    /\ Idle
    /\ UsesSigner(s)
    /\ response \in Responses(cid)
    /\ LET base == [kind |-> kind, api |-> impl, signer |-> s, agreement |-> ai,
                    packet |-> pi, pwGiven |-> pw # <<>>, encPin |-> "none",
                    descPin |-> "none", submitted |-> FALSE, call |-> <<>>]
           fail(sig, error) ==
               base @@ [key |-> <<>>, pc |-> "failed", sig |-> sig, response |-> <<>>,
                        result |-> [threw |-> error], error |-> error]
       IN  op' =
             IF pw = <<>> /\ ~readyCheck(s) THEN fail("none", ReadyError)
             ELSE IF pw = <<>> /\ ~signed
             THEN fail("rejected", "signature request rejected")
             ELSE LET pwBytes == IF pw # <<>> THEN pw[1]
                                 ELSE EncryptionPW(s, EncryptionMessage(agreements[ai]))
                      result == downloadAndDecrypt(pwBytes, response)
                  IN  base @@ [key |-> EncryptionKey(pwBytes),
                               pc |-> IF "returned" \in DOMAIN result THEN "done" ELSE "failed",
                               sig |-> IF pw = <<>> THEN "ok" ELSE "none",
                               response |-> response, result |-> result,
                               error |-> IF "returned" \in DOMAIN result
                                         THEN "none" ELSE result.threw]
    /\ UNCHANGED <<impl, contractSigner, supplied, agreements, packets,
                   created, signLog>>

GetAgreementPDF(s, ai, pw, signed, response) ==
    Download("getAgreementPDF", s, ai, 0, agreements[ai].encryptedCid, pw, signed, response)

GetSignaturePDF(s, ai, pi, signed, response) ==
    Download("getSignaturePDF", s, ai, pi, packets[pi].encryptedCid, <<>>, signed, response)

(***************************************************************************)
(* Specification                                                           *)
(***************************************************************************)
Callers == Signers \cup {NoSigner}
AddressInputs == {<<>>, <<Address("bob")>>}
PerPages == {1, 10}

\* The create and sign flows over the given documents and descriptions
Flows(documents, descriptions, limit) ==
    \/ \E s \in Callers, identifier \in AgreementIdentifiers, pdf \in documents,
          description \in descriptions :
          CreateAgreement(s, identifier, pdf, description, MaxAgreements)
    \/ \E s \in Callers, ai \in 1..Len(agreements), identifier \in SlotIdentifiers,
          pdf \in documents :
          Sign(s, ai, identifier, pdf, limit)
    \/ SignatureResolved
    \/ SignatureRejected
    \/ Identified
    \/ \E which \in {"encPin", "descPin"} : PinResolved(which)
    \/ \E which \in {"encPin", "descPin"} : PinRejected(which)
    \/ SubmitAgreement
    \/ SubmitSignature

Retrievals ==
    \/ \E s \in Callers, ai \in 1..Len(agreements) :
          \E pw \in {<<>>} \cup {<<p>> : p \in CallerPWs(agreements[ai])},
             response \in Responses(agreements[ai].encryptedCid) :
             \E signed \in (IF pw = <<>> THEN BOOLEAN ELSE {TRUE}) :
                GetAgreementPDF(s, ai, pw, signed, response)
    \/ \E s \in Callers, ai \in 1..Len(agreements), pi \in 1..Len(packets),
          signed \in BOOLEAN :
          \E response \in Responses(packets[pi].encryptedCid) :
             GetSignaturePDF(s, ai, pi, signed, response)

PerPageInputs == {<<>>} \cup {<<perPage>> : perPage \in PerPages}

Lists ==
    \/ \E s \in Callers, address \in AddressInputs, page \in 1..MaxPage,
          perPage \in PerPageInputs :
          GetAgreements(s, address, page, perPage)
    \/ \E s \in Callers, address \in AddressInputs, page \in 1..MaxPage,
          perPage \in PerPageInputs :
          GetSignatures(s, address, page, perPage)

Gets ==
    \/ \E s \in Callers, address \in AddressInputs, index \in 0..(MaxPage - 1) :
          GetAgreement(s, address, index)
    \/ \E s \in Callers, address \in AddressInputs, index \in 0..(MaxPage - 1) :
          GetSignature(s, address, index)

Queries ==
    \/ \E s \in Callers : GetProfile(s)
    \/ Lists

\* The life of an agreement: creation, signatures, retrieval.
Next ==
    \/ \E s \in Callers : Constructor(s)
    \/ Flows(Documents, LifecycleDescriptions, MaxLifecycleSigns)
    \/ Retrievals

Spec == Init /\ [][Next]_vars

\* The slots of an agreement: every sampled description, one document.
NextSlots ==
    \/ \E s \in Callers : Constructor(s)
    \/ Flows({<<37>>}, DescriptionSamples, MaxSigns)

SpecSlots == Init /\ [][NextSlots]_vars

\* The signer of the class instance: constructor, setSigner and the
\* operations that check readiness.
NextReady ==
    \/ \E s \in Callers : Constructor(s)
    \/ \E s \in Signers : SetSigner(s)
    \/ Queries
    \/ Flows({<<37>>}, LifecycleDescriptions, MaxLifecycleSigns)

SpecReady == Init /\ [][NextReady]_vars

\* The content identifier of an agreement: creations only.
NextCid ==
    \/ \E s \in Callers : Constructor(s)
    \/ \E s \in Callers, c \in CidCreations :
          CreateAgreement(s, c.identifier, c.pdf, c.description, MaxCidAgreements)
    \/ SignatureResolved
    \/ SignatureRejected
    \/ Identified
    \/ \E which \in {"encPin", "descPin"} : PinResolved(which)
    \/ \E which \in {"encPin", "descPin"} : PinRejected(which)
    \/ SubmitAgreement

SpecCid == Init /\ [][NextCid]_vars

\* The list operations over a ledger that holds agreements and packets, by
\* one instance.
NextPages ==
    \/ \E s \in Callers, description \in LifecycleDescriptions :
          CreateAgreement(s, "a", <<37>>, description, MaxListed)
    \/ \E s \in Callers, ai \in 1..Len(agreements) :
          Sign(s, ai, "a", <<37>>, MaxLifecycleSigns)
    \/ SignatureResolved
    \/ Identified
    \/ \E which \in {"encPin", "descPin"} : PinResolved(which)
    \/ SubmitAgreement
    \/ SubmitSignature
    \/ Lists
    \/ Gets

SpecPages == Init /\ [][NextPages]_vars

(***************************************************************************)
(* Properties                                                              *)
(***************************************************************************)
\* The constraints of the agreement a sign-log entry is about
ConstraintsOf(e) == agreements[e.agreement].constraints

\* The positions of the constraints with a given identifier
Matches(constraints, identifier) ==
    {i \in 1..Len(constraints) : constraints[i].identifier = identifier}

\* Whether a constraint lets the signer of a sign-log entry sign
Permits(c, e) == c.signer = AddressZero \/ c.signer = Address(e.signer)

\* The sign-log entries before position k that name the same slot of the
\* same agreement as entry k and were authorized
AuthorizedBefore(k) ==
    {j \in 1..(k - 1) : /\ signLog[j].agreement = signLog[k].agreement
                        /\ signLog[j].named = signLog[k].named
                        /\ signLog[j].verdict = "Authorized"}

\* The sign-log entries that name a slot of an agreement
Naming(ai, identifier) ==
    {k \in 1..Len(signLog) : signLog[k].agreement = ai /\ signLog[k].named = identifier}

C2_DeniedWithoutUse ==
    /\ \A k \in 1..Len(signLog) :
          LET e == signLog[k]
              m == Matches(ConstraintsOf(e), e.named)
          IN  /\ m = {} => e.verdict = "NoSuchSlot"
              /\ (m # {} /\ ~Permits(ConstraintsOf(e)[Min(m)], e))
                    => e.verdict = "WrongSigner"
    /\ \A ai \in 1..Len(agreements) :
          \A i \in 1..Len(agreements[ai].constraints) :
             LET cs == agreements[ai].constraints
             IN  cs[i].totalUsed =
                    IF i = Min(Matches(cs, cs[i].identifier))
                    THEN Cardinality({k \in Naming(ai, cs[i].identifier) :
                                         signLog[k].verdict = "Authorized"})
                    ELSE 0

\* Both denials happened to one agreement.
C2_Witness ==
    /\ Len(signLog) = 2
    /\ {signLog[1].verdict, signLog[2].verdict} = {"NoSuchSlot", "WrongSigner"}
    /\ \E i \in 1..Len(agreements[1].constraints) :
          agreements[1].constraints[i].totalUsed = 0

ReadyOps == {"getProfile", "getAgreements", "getSignatures", "createAgreement", "sign"}

\* C3: the class instance is ready exactly when a signer has been supplied,
\* by the constructor or by setSigner: its operations throw the ready error
\* exactly when none was supplied, use the supplied signer otherwise, and a
\* thrown operation made no signing, pin or ledger call.
C3_ReadyWhenSupplied ==
    (impl # "functional" /\ op.kind \in ReadyOps)
    => /\ (op.error = ReadyError) <=> (supplied = NoSigner)
       /\ op.error # ReadyError => op.signer = supplied
       /\ op.error = ReadyError
             => /\ op.sig = "none" /\ op.encPin = "none" /\ op.descPin = "none"
                /\ ~op.submitted /\ op.call = <<>>

StepFailed(o) == o.sig = "rejected" \/ o.encPin = "rejected" \/ o.descPin = "rejected"

\* C4: in the create flow and in the sign flow, once the signing request or
\* a pin has failed the flow has ended with an error and nothing is handed
\* to the ledger, in whatever order the two pins of the create flow answer.
C4_NoSubmissionAfterFailure ==
    (InFlow /\ op.sig # "none")
    => /\ StepFailed(op)
             => /\ op.pc = "failed" /\ op.error # "none"
                /\ ~op.submitted /\ op.record = <<>>
       /\ (op.kind = "createAgreement" /\ ~op.submitted)
             => Len(agreements) < MaxAgreements

\* The description pin failed and the ciphertext pin went through.
C4_Witness ==
    /\ op.kind = "createAgreement"
    /\ op.descPin = "rejected"
    /\ op.encPin = "ok"
    /\ ~op.submitted

\* C5: the message the sign flow asks the signer to sign is the message the
\* create flow of that agreement asked for.
C5_SameMessage ==
    (op.kind = "sign" /\ op.sig # "none")
    => op.message = created[op.agreement].message

\* The encryptions made by the flows that reached the ledger and by the
\* flow in progress: the key and the plaintext given to nacl.secretbox
Encryptions ==
    {[key |-> EncryptionKey(EncryptionPW(created[i].signer, created[i].message)),
      plain |-> created[i].pdf] : i \in 1..Len(created)}
    \cup {[key |-> EncryptionKey(EncryptionPW(signLog[k].signer, signLog[k].message)),
           plain |-> signLog[k].pdf] : k \in 1..Len(signLog)}
    \cup (IF InFlow /\ op.sig = "ok"
          THEN {[key |-> EncryptionKey(FlowPW(op)), plain |-> op.pdf]} ELSE {})

\* C6: no key is used, with the fixed nonce, for two different documents.
C6_NoKeyReuse ==
    \A e1 \in Encryptions : \A e2 \in Encryptions :
        e1.key = e2.key => e1.plain = e2.plain

Fetched(o) == o.sig = "ok" /\ o.response.status = "ok" /\ ~o.response.modified

\* C7: the signer who created an agreement gets its document back from
\* getAgreementPDF, and the signer of a packet gets the packet's document
\* back from getSignaturePDF, when the ciphertext is fetched unmodified.
C7_RoundTrip ==
    /\ (op.kind = "getAgreementPDF" /\ Fetched(op)
            /\ op.signer = created[op.agreement].signer)
          => op.result = [returned |-> created[op.agreement].pdf]
    /\ (op.kind = "getSignaturePDF" /\ Fetched(op))
          => \A k \in 1..Len(signLog) :
                (/\ signLog[k].packet = op.packet
                 /\ signLog[k].agreement = op.agreement
                 /\ signLog[k].signer = op.signer)
                => op.result = [returned |-> signLog[k].pdf]

\* A signer got back the document of a packet it signed.
C7_Witness ==
    /\ op.kind = "getSignaturePDF"
    /\ Fetched(op)
    /\ \E k \in 1..Len(signLog) :
          /\ signLog[k].packet = op.packet
          /\ signLog[k].signer = op.signer
          /\ signLog[k].pdf # created[op.agreement].pdf
          /\ op.result = [returned |-> signLog[k].pdf]

\* A retrieval that got as far as downloadAndDecrypt
Downloaded == op.kind \in {"getAgreementPDF", "getSignaturePDF"} /\ op.response # <<>>

\* The box stored under the content identifier the retrieval asked for
StoredBox ==
    Addressed(IF op.kind = "getAgreementPDF" THEN agreements[op.agreement].encryptedCid
                                             ELSE packets[op.packet].encryptedCid)

\* The fetch answered with the stored box and the key is the one it was made with
Authentic ==
    /\ op.response.status = "ok"
    /\ ~op.response.modified
    /\ op.key = StoredBox.body.streamKey

Submitted == op.kind = "createAgreement" /\ op.submitted

\* C9: the constraints handed to the ledger are the description's entries in
\* order, with totalUsed = 0, the entry's signer or the zero address, and
\* the entry's allowedToUse or 1.
C9_ConstraintsFromDescription ==
    Submitted
    => LET cs == op.record.constraints
           d == op.description
       IN  /\ Len(cs) = Len(d)
           /\ \A i \in 1..Len(d) :
                 /\ cs[i].identifier = d[i].identifier
                 /\ cs[i].totalUsed = 0
                 /\ cs[i].signer = IF Has(d[i], "signer") THEN d[i].signer ELSE AddressZero
                 /\ Has(cs[i], "allowedToUse")
                 /\ cs[i].allowedToUse =
                        IF Has(d[i], "allowedToUse") THEN d[i].allowedToUse ELSE 1

DistinctIdentifiers(entries) ==
    \A i \in 1..Len(entries) : \A j \in 1..Len(entries) :
        i # j => entries[i].identifier # entries[j].identifier

\* C10 as stated: the slot identifiers handed to the ledger are pairwise
\* distinct.
C10_DistinctIdentifiers == Submitted => DistinctIdentifiers(op.record.constraints)

\* C10 amended: the slot identifiers handed to the ledger are those of the
\* description, in order, so they are pairwise distinct exactly when the
\* description's are.
C10_IdentifiersCopied ==
    Submitted
    => LET cs == op.record.constraints
           d == op.description
       IN  /\ Len(cs) = Len(d)
           /\ \A i \in 1..Len(d) : cs[i].identifier = d[i].identifier
           /\ DistinctIdentifiers(cs) <=> DistinctIdentifiers(d)

\* A description of two different slots was handed over.
C10_Witness ==
    /\ Submitted
    /\ Len(op.record.constraints) = 2
    /\ op.record.constraints[1].identifier # op.record.constraints[2].identifier

\* The content identifiers the create flows have handed to the ledger, each
\* with the document and the other inputs of its flow
HandedCids ==
    {[cid |-> agreements[i].cid, pdf |-> created[i].pdf,
      signer |-> created[i].signer, identifier |-> agreements[i].identifier,
      constraints |-> agreements[i].constraints] : i \in 1..Len(agreements)}
    \cup (IF Submitted
          THEN {[cid |-> op.record.cid, pdf |-> op.pdf, signer |-> op.signer,
                 identifier |-> op.record.identifier,
                 constraints |-> op.record.constraints]}
          ELSE {})

\* C11: the content identifier handed to the ledger depends on the document
\* bytes alone (two create flows with the same bytes hand over the same cid,
\* whatever their signers, identifiers and descriptions) and is always the
\* version-1 string.
C11_CidOfBytesAlone ==
    /\ \A h1 \in HandedCids : \A h2 \in HandedCids :
          h1.pdf = h2.pdf => h1.cid = h2.cid
    /\ \A h \in HandedCids : h.cid.base = "base32" /\ h.cid.cid.version = 1

\* Two flows with the same document and another signer, identifier and
\* description handed over the same cid, unlike that of another document.
C11_Witness ==
    \E h1 \in HandedCids : \E h2 \in HandedCids : \E h3 \in HandedCids :
        /\ h1.pdf = h2.pdf
        /\ h1.signer # h2.signer
        /\ h1.identifier # h2.identifier
        /\ h1.constraints # h2.constraints
        /\ h1.cid = h2.cid
        /\ h3.pdf # h1.pdf
        /\ h3.cid # h1.cid

\* The raw bytes of a signature: r, s and v, 65 bytes
SignatureBytes(signature) == [src |-> [raw |-> signature], lo |-> 1, hi |-> 65]

\* The signature a retrieval asked for
RetrievalSignature == Signature(op.signer, EncryptionMessage(agreements[op.agreement]))

\* C12: the key used to encrypt and to decrypt is the first 32 of the raw
\* bytes of the signature the signer returned, and is 32 bytes long.
C12_KeyIsSignaturePrefix ==
    /\ (InFlow /\ op.encPin # "none")
          => /\ EncryptionKey(FlowPW(op))
                   = slice(SignatureBytes(Signature(op.signer, op.message)), 0, KeyLength)
             /\ ByteLength(EncryptionKey(FlowPW(op))) = KeyLength
    /\ (op.kind \in {"getAgreementPDF", "getSignaturePDF"} /\ op.sig = "ok")
          => /\ op.key = slice(SignatureBytes(RetrievalSignature), 0, KeyLength)
             /\ ByteLength(op.key) = KeyLength

\* C13: a list operation calls the ledger with offset = (page - 1) * perPage
\* and limit = perPage (10 when the functional API is given none), a
\* non-negative offset; getAgreement / getSignature with index i call it with
\* offset = i and limit = 1 and return the first element of the answer.
C13_PageToOffset ==
    /\ (op.kind \in {"getAgreements", "getSignatures"} /\ op.error = "none")
          => LET perPage == IF op.args.perPage = <<>> THEN 10 ELSE op.args.perPage[1]
             IN  /\ op.args.perPage = <<>> => op.api = "functional"
                 /\ op.call[1] = op.kind
                 /\ op.call[3] = (op.args.page - 1) * perPage
                 /\ op.call[4] = perPage
                 /\ op.call[3] >= 0
    /\ (op.kind \in {"getAgreement", "getSignature"} /\ op.error = "none")
          => LET all == ledgerList(op.call[1], op.call[2])
             IN  /\ op.call[1] = IF op.kind = "getAgreement" THEN "getAgreements"
                                                             ELSE "getSignatures"
                 /\ op.call[3] = op.args.index
                 /\ op.call[4] = 1
                 /\ op.result = IF op.args.index < Len(all)
                                THEN [returned |-> all[op.args.index + 1]]
                                ELSE [undefined |-> TRUE]

\* The second agreement of an owner was asked for by its index and returned.
C13_Witness ==
    /\ op.kind = "getAgreement"
    /\ op.error = "none"
    /\ op.args.index = 1
    /\ "returned" \in DOMAIN op.result
    /\ op.result.returned = agreements[2]
    /\ agreements[1].owner = agreements[2].owner

\* A create flow that passed the ready check
Creating == op.kind = "createAgreement" /\ "cid" \in DOMAIN op

\* The content identifier computation has been issued
CidIssued == op.pc = "identifying" \/ Len(op.cid) = 1

\* What the submitted record carries: the computed cid and what the two
\* pins returned, and the submission came after all three
CarriesResults ==
    Submitted
    => /\ Len(op.cid) = 1 /\ op.encPin = "ok" /\ op.descPin = "ok"
       /\ op.record.cid = cidToString(toV1(op.cid[1]))
       /\ op.record.encryptedCid = pinFile(encryptedFile(op.pdf, FlowPW(op)))
       /\ op.record.descriptionCid = pinFile(descriptionFile(op.description))

\* C14 as stated: the content identifier computation and the description
\* pin are issued together, neither waiting for the other, and the record is
\* submitted after both and the ciphertext pin, carrying their results.
C14_IssuedTogether ==
    Creating
    => /\ CidIssued <=> op.descPin # "none"
       /\ CarriesResults

\* C14 amended: the description pin is issued, together with the ciphertext
\* pin, only once the content identifier has been computed; the record is
\* submitted after the computation and both pins, carrying their results,
\* in whatever order the pins answer.
C14_PinsAfterCid ==
    Creating
    => /\ op.descPin # "none" => Len(op.cid) = 1
       /\ (op.descPin # "none") <=> (op.encPin # "none")
       /\ CarriesResults

\* The record went to the ledger after the computation and both pins.
C14_Witness ==
    /\ Creating
    /\ Submitted
    /\ op.pc = "done"
    /\ op.encPin = "ok" /\ op.descPin = "ok"
    /\ op.record.cid = cidToString(toV1(op.cid[1]))

====
